---- MODULE Spec2Model ----
(***************************************************************************)
(* Lazy tensor-expression operators of MatX: the transform nodes           *)
(* (matmul, cov, cumsum, trace, qr, cusolver_qr) and the slice view.       *)
(*                                                                         *)
(* Arrays are 0-based functions, as in the source.  A std::array slot is   *)
(* <<>> while nothing has been stored in it and <<v>> once v was stored:   *)
(* the constructors never value-initialise their arrays.  Reading a slot   *)
(* that was never stored, or one outside the array, yields any value.      *)
(***************************************************************************)
EXTENDS Integers, Sequences, FiniteSets, TLC

\* ------------------------------------------------------------- bounds
MaxRank == 3        \* operand ranks 1..MaxRank
MaxExt == 3         \* operand extents 1..MaxExt
MaxExecRank == 3    \* operand ranks of the nodes that are executed

\* ------------------------------------------------------------- helpers
Rk(t) == Cardinality(DOMAIN t)

Arr(n) == [i \in 0 .. n - 1 |-> <<>>]

Store(arr, i, v) == IF i \in DOMAIN arr THEN [arr EXCEPT ![i] = <<v>>] ELSE arr

Oob(arr, i) == IF i \in DOMAIN arr THEN {} ELSE {i}

\* tensors of rank n with extents 1..e
TensorsOfRank(n, e) == [0 .. n - 1 -> 1 .. e]

Tensors(lo, hi, e) == UNION {TensorsOfRank(n, e) : n \in lo .. hi}

\* values an indeterminate read may produce: below and above every extent
Garbage == {0, MaxExt + 1}


\* ------------------------------------------------------------- state
VARIABLES
    node,       \* the transform node under study (NoNode before construction)
    size0,      \* what Size(d) returned immediately after construction
    obs,        \* the value returned by the last Size / element read
    tmp_out_,   \* the node's owned temporary
    bufs,       \* the caller's destination buffers
    store,      \* version of the values stored in the source tensor
    events,     \* allocations and kernel calls made by the last call
    call,       \* the last call made on the node and how it ended
    sl,         \* the slice of an operator (NoSlice before construction)
    sl2,        \* the slice of sl (NoSlice before construction)
    sread,      \* the last element read through the outermost slice
    swrite,     \* the last element written through the outermost slice
    opdata,     \* the elements of the sliced operand
    tree,       \* an expression tree of transform nodes (NoTree before it is built)
    trail       \* the last PreRun on the root of tree: what it did, in order

xvars == <<node, size0, obs, tmp_out_, bufs, store, events, call>>
svars == <<sl, sl2, sread, swrite, opdata>>
tvars == <<tree, trail>>
vars == <<node, size0, obs, tmp_out_, bufs, store, events, call, sl, sl2, sread,
          swrite, opdata, tree, trail>>

\* ------------------------------------------------------------- shapes
\* no_permute_t carries no dimensions
no_permute_t == <<>>

NoNode ==
    [kind |-> "none", a_ |-> <<>>, b_ |-> <<>>, perm_ |-> no_permute_t,
     permuted |-> FALSE, out_dims_ |-> <<>>, oob |-> {}, rank |-> 0]

\* capacity of CovOp::out_dims_
CovDims == 2

\* detail::getPermuteDims<RANK>(axis): the dimensions not in axis keep their
\* order at the front, axis[0] and axis[1] become the two trailing dimensions
getPermuteDims(n, axis) ==
    LET rest == {i \in 0 .. n - 1 : i # axis[1] /\ i # axis[2]}
        nth(k) == CHOOSE i \in rest : Cardinality({j \in rest : j < i}) = k
    IN  [k \in 0 .. n - 1 |->
            IF k = n - 1 THEN axis[2] ELSE IF k = n - 2 THEN axis[1] ELSE nth(k)]

\* permute(op, perm): dimension k of the result is dimension perm[k] of op
permute(t, perm) == [k \in DOMAIN t |-> t[perm[k]]]

\* MatMulOp::MatMulOp: a and b are the operands as captured (already permuted
\* by the axis overload)
MatMulOp(a, b, perm, isPerm) ==
    LET n == Rk(a)
        m == Rk(b)
        withPerm == [r \in 0 .. n - 1 |->
                        IF perm[r] = n - 2 THEN <<a[perm[r]]>>
                        ELSE IF perm[r] = n - 1 THEN <<b[perm[r]]>>
                        ELSE <<a[r]>>]
        batch == [r \in 0 .. n - 1 |-> IF r < n - 2 THEN <<a[r]>> ELSE <<>>]
        rows == Store(batch, n - 2, a[n - 2])
        cols == Store(rows, m - 1, b[m - 1])
    IN  [kind |-> "matmul", a_ |-> a, b_ |-> b, perm_ |-> perm,
         permuted |-> isPerm,
         out_dims_ |-> IF isPerm THEN withPerm ELSE cols,
         oob |-> IF isPerm THEN {} ELSE Oob(rows, m - 1),
         rank |-> n]

\* CovOp::CovOp: out_dims_ holds CovDims entries whatever the operand's rank
CovOp(a) ==
    LET n == Rk(a)
    IN  [kind |-> "cov", a_ |-> a, b_ |-> <<>>, perm_ |-> no_permute_t,
         permuted |-> FALSE,
         out_dims_ |-> [r \in 0 .. CovDims - 1 |-> IF r < n THEN <<a[r]>> ELSE <<>>],
         oob |-> {r \in 0 .. n - 1 : r >= CovDims},
         rank |-> n]

\* CumSumOp::CumSumOp
CumSumOp(a) ==
    [kind |-> "cumsum", a_ |-> a, b_ |-> <<>>, perm_ |-> no_permute_t,
     permuted |-> FALSE,
     out_dims_ |-> [r \in 0 .. Rk(a) - 1 |-> <<a[r]>>],
     oob |-> {}, rank |-> Rk(a)]

\* TraceOp::TraceOp and TraceOp::Rank: no extent array, rank 0
TraceOp(a) ==
    [kind |-> "trace", a_ |-> a, b_ |-> <<>>, perm_ |-> no_permute_t,
     permuted |-> FALSE, out_dims_ |-> <<>>, oob |-> {}, rank |-> 0]

\* QROp::QROp and QROp::Rank
QROp(a) ==
    [kind |-> "qr", a_ |-> a, b_ |-> <<>>, perm_ |-> no_permute_t,
     permuted |-> FALSE, out_dims_ |-> <<>>, oob |-> {}, rank |-> Rk(a)]

\* CuSolverQROp::CuSolverQROp and CuSolverQROp::Rank
CuSolverQROp(a) ==
    [kind |-> "cusolver_qr", a_ |-> a, b_ |-> <<>>, perm_ |-> no_permute_t,
     permuted |-> FALSE, out_dims_ |-> <<>>, oob |-> {}, rank |-> Rk(a)]

\* Size(dim) of a node: the set of values the call may return
Size(nd, dim) ==
    CASE nd.kind \in {"qr", "cusolver_qr"} -> {nd.a_[dim]}
      [] nd.kind = "trace" -> {1}
      [] OTHER ->
            IF dim \in DOMAIN nd.out_dims_ /\ nd.out_dims_[dim] # <<>>
            THEN {nd.out_dims_[dim][1]}
            ELSE Garbage

\* the extents a caller can see: one Size(d) per dimension d < Rank()
Sizes(nd) == {f \in [0 .. nd.rank - 1 -> 0 .. MaxExt + 1] :
                \A d \in 0 .. nd.rank - 1 : f[d] \in Size(nd, d)}


\* ------------------------------------------------------------- execution
MaxVer == 1         \* the source tensor's values are rewritten at most MaxVer times
MaxArity == 3       \* destination tuples hold 1..MaxArity elements

\* the caller's two destination buffers; Tmp designates the node's tmp_out_,
\* Self the operator that mtie appends to the outputs it was given
Bufs == {1, 2}
Tmp == 0
Self == 3

Executors == {"device", "host"}

is_device_executor_v(ex) == ex = "device"

\* destination tuples: up to two output buffers, then the operator itself
OutTuples ==
    UNION {{t \in [1 .. k -> Bufs \cup {Self}] :
               \A i \in 1 .. k : (t[i] = Self) <=> (i > 2)} : k \in 1 .. MaxArity}

NoTensor == [alloc |-> FALSE, mem |-> "none", dims |-> <<>>, data |-> <<>>]

\* make_tensor(tmp_out_, shape, space, stream): a fresh allocation
make_tensor(shape, space) ==
    [alloc |-> TRUE, mem |-> space, dims |-> shape, data |-> <<>>]

Alloc(space, ex) ==
    [ev |-> "alloc", what |-> space, dst |-> <<Tmp>>, ctx |-> ex, ops |-> <<>>]

KernelCall(impl, dsts, nd, ex) ==
    [ev |-> "kernel", what |-> impl, dst |-> dsts, ctx |-> ex,
     ops |-> <<nd.a_, nd.b_>>]

\* the run of a call: how it ended, what it did, and the storage afterwards
Run(res, evs, tmp, bfs) == [res |-> res, events |-> evs, tmp |-> tmp, bufs |-> bfs]

\* A numeric kernel writes each destination; what it writes is a function of
\* the kernel and of the operand values at the time of the call.  A
\* destination without storage (an unallocated tmp_out_) receives nothing.
Written(impl, dsts, tmp, bfs, ver) ==
    LET hit == {dsts[i] : i \in DOMAIN dsts}
    IN  [tmp |-> IF Tmp \in hit /\ tmp.alloc
                 THEN [tmp EXCEPT !.data = <<impl, ver>>] ELSE tmp,
         bufs |-> [b \in Bufs |-> IF b \in hit THEN <<impl, ver>> ELSE bfs[b]]]

Kernel(impl, dsts, nd, ex, evs, tmp, bfs, ver) ==
    LET w == Written(impl, dsts, tmp, bfs, ver)
    IN  Run("ok", Append(evs, KernelCall(impl, dsts, nd, ex)), w.tmp, w.bufs)

\* MATX_ASSERT_STR(cond, error, str): raises error unless cond holds
MATX_ASSERT_STR(cond, error) == IF cond THEN "ok" ELSE error

\* a call the compiler rejects (static_assert, deleted function): nothing runs
Rejected(why, tmp, bfs) == Run(why, <<>>, tmp, bfs)

\* MatMulOp::Exec without its static_assert
MatMulOp_Exec_unguarded(nd, out, ex, evs, tmp, bfs, ver) ==
    Kernel("matmul_impl", <<out[1]>>, nd, ex, evs, tmp, bfs, ver)

\* MatMulOp::Exec; permute(out, perm_) is a view of the same destination
MatMulOp_Exec(nd, out, ex, evs, tmp, bfs, ver) ==
    IF ~is_device_executor_v(ex) THEN Rejected("static_assert", tmp, bfs)
    ELSE Kernel("matmul_impl", <<out[1]>>, nd, ex, evs, tmp, bfs, ver)

\* CovOp::Exec
CovOp_Exec(nd, out, ex, evs, tmp, bfs, ver) ==
    IF ~is_device_executor_v(ex) THEN Rejected("static_assert", tmp, bfs)
    ELSE Kernel("cov_impl", <<out[1]>>, nd, ex, evs, tmp, bfs, ver)

\* CumSumOp::Exec allocating the temporary as PreRun does
CumSumOp_Exec_allocating(nd, out, ex, evs, tmp, bfs, ver) ==
    Kernel("cumsum_impl", <<out[1]>>, nd, ex,
           Append(evs, Alloc("MATX_ASYNC_DEVICE_MEMORY", ex)),
           make_tensor(nd.out_dims_, "MATX_ASYNC_DEVICE_MEMORY"), bfs, ver)

\* CumSumOp::Exec
CumSumOp_Exec(nd, out, ex, evs, tmp, bfs, ver) ==
    Kernel("cumsum_impl", <<out[1]>>, nd, ex, evs, tmp, bfs, ver)

\* TraceOp::Exec
TraceOp_Exec(nd, out, ex, evs, tmp, bfs, ver) ==
    Kernel("trace_impl", <<out[1]>>, nd, ex, evs, tmp, bfs, ver)

\* tuple size both QR nodes assert on
QRTupleSize == 3

\* QROp::Exec
QROp_Exec(nd, out, ex, evs, tmp, bfs, ver) ==
    IF ~is_device_executor_v(ex) \/ Len(out) # QRTupleSize
    THEN Rejected("static_assert", tmp, bfs)
    ELSE Kernel("qr_impl", <<out[1], out[2]>>, nd, ex, evs, tmp, bfs, ver)

\* CuSolverQROp::Exec
CuSolverQROp_Exec(nd, out, ex, evs, tmp, bfs, ver) ==
    IF ~is_device_executor_v(ex) \/ Len(out) # QRTupleSize
    THEN Rejected("static_assert", tmp, bfs)
    ELSE Kernel("cusolver_qr_impl", <<out[1], out[2]>>, nd, ex, evs, tmp, bfs, ver)


\* PreRun of the nodes whose operands are tensors: a tensor's own PreRun does
\* nothing.  Exec is instantiated with the same executor type, so its
\* static_assert rejects the whole PreRun before anything runs.
PreRunWith(r, tmp, bfs) ==
    IF r.res = "static_assert" THEN Rejected("static_assert", tmp, bfs) ELSE r

\* MatMulOp::PreRun
MatMulOp_PreRun(nd, ex, tmp, bfs, ver) ==
    LET dev == is_device_executor_v(ex)
        t1 == IF dev THEN make_tensor(nd.out_dims_, "MATX_ASYNC_DEVICE_MEMORY") ELSE tmp
        e1 == IF dev THEN <<Alloc("MATX_ASYNC_DEVICE_MEMORY", ex)>> ELSE <<>>
    IN  PreRunWith(MatMulOp_Exec(nd, <<Tmp>>, ex, e1, t1, bfs, ver), tmp, bfs)

\* CovOp::PreRun
CovOp_PreRun(nd, ex, tmp, bfs, ver) ==
    LET dev == is_device_executor_v(ex)
        t1 == IF dev THEN make_tensor(nd.out_dims_, "MATX_ASYNC_DEVICE_MEMORY") ELSE tmp
        e1 == IF dev THEN <<Alloc("MATX_ASYNC_DEVICE_MEMORY", ex)>> ELSE <<>>
    IN  PreRunWith(CovOp_Exec(nd, <<Tmp>>, ex, e1, t1, bfs, ver), tmp, bfs)

\* CumSumOp::PreRun
CumSumOp_PreRun(nd, ex, tmp, bfs, ver) ==
    LET dev == is_device_executor_v(ex)
        t1 == IF dev THEN make_tensor(nd.out_dims_, "MATX_ASYNC_DEVICE_MEMORY") ELSE tmp
        e1 == IF dev THEN <<Alloc("MATX_ASYNC_DEVICE_MEMORY", ex)>> ELSE <<>>
    IN  PreRunWith(CumSumOp_Exec(nd, <<Tmp>>, ex, e1, t1, bfs, ver), tmp, bfs)

\* TraceOp::PreRun: the temporary is a rank-0 tensor, in host memory otherwise
TraceOp_PreRun(nd, ex, tmp, bfs, ver) ==
    LET space == IF is_device_executor_v(ex)
                 THEN "MATX_ASYNC_DEVICE_MEMORY" ELSE "MATX_HOST_MEMORY"
    IN  PreRunWith(TraceOp_Exec(nd, <<Tmp>>, ex, <<Alloc(space, ex)>>,
                                make_tensor(<<>>, space), bfs, ver), tmp, bfs)

\* QROp::PreRun preparing a temporary as the single-output nodes do
QROp_PreRun_preparing(nd, ex, tmp, bfs, ver) ==
    Kernel("qr_impl", <<Tmp>>, nd, ex, <<Alloc("MATX_ASYNC_DEVICE_MEMORY", ex)>>,
           make_tensor(<<>>, "MATX_ASYNC_DEVICE_MEMORY"), bfs, ver)

\* QROp::PreRun: MATX_ASSERT_STR(false, matxNotSupported, ...)
QROp_PreRun(nd, ex, tmp, bfs, ver) ==
    Run(MATX_ASSERT_STR(FALSE, "matxNotSupported"), <<>>, tmp, bfs)

\* CuSolverQROp::PreRun: MATX_ASSERT_STR(false, matxNotSupported, ...)
CuSolverQROp_PreRun(nd, ex, tmp, bfs, ver) ==
    Run(MATX_ASSERT_STR(FALSE, "matxNotSupported"), <<>>, tmp, bfs)

\* operator() of the single-output nodes returns tmp_out_(indices...): what
\* the kernel wrote there, anything if nothing was written
Indeterminate == {<<impl, v>> : impl \in {"indeterminate"}, v \in 0 .. MaxVer}

Element(tmp) ==
    IF tmp.alloc /\ tmp.data # <<>> THEN {tmp.data} ELSE Indeterminate

MultiOutput(nd) == nd.kind \in {"qr", "cusolver_qr"}

ExecOf(nd, out, ex, evs, tmp, bfs, ver) ==
    CASE nd.kind = "matmul" -> MatMulOp_Exec(nd, out, ex, evs, tmp, bfs, ver)
      [] nd.kind = "cov" -> CovOp_Exec(nd, out, ex, evs, tmp, bfs, ver)
      [] nd.kind = "cumsum" -> CumSumOp_Exec(nd, out, ex, evs, tmp, bfs, ver)
      [] nd.kind = "trace" -> TraceOp_Exec(nd, out, ex, evs, tmp, bfs, ver)
      [] nd.kind = "qr" -> QROp_Exec(nd, out, ex, evs, tmp, bfs, ver)
      [] nd.kind = "cusolver_qr" -> CuSolverQROp_Exec(nd, out, ex, evs, tmp, bfs, ver)

PreRunOf(nd, ex, tmp, bfs, ver) ==
    CASE nd.kind = "matmul" -> MatMulOp_PreRun(nd, ex, tmp, bfs, ver)
      [] nd.kind = "cov" -> CovOp_PreRun(nd, ex, tmp, bfs, ver)
      [] nd.kind = "cumsum" -> CumSumOp_PreRun(nd, ex, tmp, bfs, ver)
      [] nd.kind = "trace" -> TraceOp_PreRun(nd, ex, tmp, bfs, ver)
      [] nd.kind = "qr" -> QROp_PreRun(nd, ex, tmp, bfs, ver)
      [] nd.kind = "cusolver_qr" -> CuSolverQROp_PreRun(nd, ex, tmp, bfs, ver)

\* ------------------------------------------------------------- actions
NoObs == [what |-> "none", dim |-> 0, val |-> <<>>]
NoCall == [op |-> "none", out |-> <<>>, ex |-> "none", res |-> "none"]
Called(op, out, ex, res) == [op |-> op, out |-> out, ex |-> ex, res |-> res]

Built == node.kind # "none"

Construct(nd) ==
    /\ node' = nd
    /\ size0' \in Sizes(nd)
    /\ call' = Called("construct", <<>>, "none", "ok")
    /\ UNCHANGED <<obs, tmp_out_, bufs, store, events>>
    /\ UNCHANGED <<svars, tvars>>

\* matmul(A, B)
matmul(TS) ==
    /\ ~Built
    /\ \E A \in TS, B \in TS :
        /\ Rk(A) >= 2 /\ Rk(B) >= 2
        /\ Construct(MatMulOp(A, B, no_permute_t, FALSE))

\* matmul(A, B, axis)
matmul_axis(TS) ==
    /\ ~Built
    /\ \E A \in TS, B \in TS :
        /\ Rk(A) >= 2 /\ Rk(A) = Rk(B)
        /\ \E x \in 0 .. Rk(A) - 1, y \in 0 .. Rk(A) - 1 :
              /\ x # y
              /\ LET perm == getPermuteDims(Rk(A), <<x, y>>)
                 IN  Construct(MatMulOp(permute(A, perm), permute(B, perm), perm, TRUE))

cov(TS) == ~Built /\ \E A \in TS : Construct(CovOp(A))

cumsum(TS) == ~Built /\ \E A \in TS : Construct(CumSumOp(A))

trace(TS) == ~Built /\ \E A \in TS : Construct(TraceOp(A))

qr(TS) == ~Built /\ \E A \in TS : Construct(QROp(A))

cusolver_qr(TS) == ~Built /\ \E A \in TS : Construct(CuSolverQROp(A))

Finish(r, c) ==
    /\ tmp_out_' = r.tmp
    /\ bufs' = r.bufs
    /\ events' = r.events
    /\ call' = c
    /\ obs' = NoObs
    /\ UNCHANGED <<node, size0, store>>
    /\ UNCHANGED <<svars, tvars>>

\* node.Exec(out, ex)
Exec ==
    /\ Built
    /\ \E out \in OutTuples, ex \in Executors :
          LET r == ExecOf(node, out, ex, <<>>, tmp_out_, bufs, store)
          IN  Finish(r, Called("Exec", out, ex, r.res))

\* node.PreRun(shape, ex)
PreRun ==
    /\ Built
    /\ \E ex \in Executors :
          LET r == PreRunOf(node, ex, tmp_out_, bufs, store)
          IN  Finish(r, Called("PreRun", <<>>, ex, r.res))

\* node(indices...): deleted for the multi-output nodes
Read ==
    /\ Built
    /\ IF MultiOutput(node)
       THEN /\ obs' = NoObs
            /\ call' = Called("operator()", <<>>, "none", "deleted")
       ELSE /\ \E v \in Element(tmp_out_) : obs' = [what |-> "element", dim |-> 0, val |-> v]
            /\ call' = Called("operator()", <<>>, "none", "ok")
    /\ events' = <<>>
    /\ UNCHANGED <<node, size0, tmp_out_, bufs, store>>
    /\ UNCHANGED <<svars, tvars>>

\* node.Size(d), 0 <= d < Rank()
SizeRead ==
    /\ Built
    /\ \E d \in 0 .. node.rank - 1 :
          \E v \in Size(node, d) : obs' = [what |-> "Size", dim |-> d, val |-> <<v>>]
    /\ call' = Called("Size", <<>>, "none", "ok")
    /\ events' = <<>>
    /\ UNCHANGED <<node, size0, tmp_out_, bufs, store>>
    /\ UNCHANGED <<svars, tvars>>

\* the caller rewrites the values of the source tensor
MutateSource ==
    /\ Built
    /\ store < MaxVer
    /\ store' = store + 1
    /\ call' = Called("mutate", <<>>, "none", "ok")
    /\ obs' = NoObs
    /\ events' = <<>>
    /\ UNCHANGED <<node, size0, tmp_out_, bufs>>
    /\ UNCHANGED <<svars, tvars>>

\* ------------------------------------------------------------- slice view
MaxSliceRank == 2   \* sliced operators have rank 1..MaxSliceRank
MaxStart == 1       \* start offsets 0..MaxStart
MaxStride == 2      \* strides 1..MaxStride

\* end markers, distinct from every coordinate
matxEnd == -1
matxDropDim == -2

\* (shape_type)std::ceil(double(a) / double(b)), b >= 1
Ceil(a, b) == IF a >= 0 THEN (a + b - 1) \div b ELSE -((-a) \div b)

NoSlice ==
    [res |-> "none", DIM |-> 0, op_ |-> <<>>, sizes_ |-> <<>>, dims_ |-> <<>>,
     starts_ |-> <<>>, strides_ |-> <<>>, ends |-> <<>>, oob |-> {}, d |-> 0]

\* the loop body recording the output position in dims_ instead of the
\* original dimension
SliceStep_positional(st, i, starts, ends, strides) ==
    LET s1 == [st EXCEPT !.starts_ = Store(@, i, starts[i]),
                         !.strides_ = Store(@, i, strides[i])]
        d == s1.d
        raw == IF ends[i] = matxEnd THEN s1.op_[i] - starts[i]
                                     ELSE ends[i] - starts[i]
    IN  IF ends[i] # matxDropDim
        THEN [s1 EXCEPT !.dims_ = Store(@, d, d),
                        !.sizes_ = Store(@, d, Ceil(raw, s1.strides_[d][1])),
                        !.oob = @ \cup Oob(s1.dims_, d),
                        !.d = d + 1]
        ELSE s1

\* the body of the constructor's loop for original dimension i
SliceStep(st, i, starts, ends, strides) ==
    LET s1 == [st EXCEPT !.starts_ = Store(@, i, starts[i]),
                         !.strides_ = Store(@, i, strides[i])]
        d == s1.d
        raw == IF ends[i] = matxEnd THEN s1.op_[i] - starts[i]
                                     ELSE ends[i] - starts[i]
    IN  IF ends[i] # matxDropDim
        THEN [s1 EXCEPT !.dims_ = Store(@, d, i),
                        !.sizes_ = Store(@, d, Ceil(raw, s1.strides_[d][1])),
                        !.oob = @ \cup Oob(s1.dims_, d),
                        !.d = d + 1]
        ELSE s1

RECURSIVE SliceLoop(_, _, _, _, _)
SliceLoop(st, i, starts, ends, strides) ==
    IF i >= Rk(st.op_) THEN st
    ELSE SliceLoop(SliceStep(st, i, starts, ends, strides), i + 1,
                   starts, ends, strides)

\* SliceOp<DIM, T>::SliceOp(op, starts, ends, strides); op is given by its
\* extents op.Size(i)
SliceOp(DIM, op, starts, ends, strides) ==
    LET st0 == [res |-> "none", DIM |-> DIM, op_ |-> op,
                sizes_ |-> Arr(DIM), dims_ |-> Arr(DIM),
                starts_ |-> Arr(Rk(op)), strides_ |-> Arr(Rk(op)),
                ends |-> ends, oob |-> {}, d |-> 0]
        st == SliceLoop(st0, 0, starts, ends, strides)
    IN  [st EXCEPT !.res = MATX_ASSERT_STR(st.d = DIM, "matxInvalidDim")]

\* what the caller gets from the constructor: once it has written outside
\* sizes_ / dims_ its behaviour is undefined, and the check on d, which comes
\* after those writes, may raise its error or let the object through
Constructed(s) == IF s.oob = {} THEN {s} ELSE {s, [s EXCEPT !.res = "ok"]}

\* SliceOp::Size(dim) once the constructor has returned
SliceSizes(s) == [k \in 0 .. s.DIM - 1 |-> s.sizes_[k][1]]

\* SliceOp::operator() leaving out ind[i] = starts_[i]
SliceIndex_unstarted(s, inds) ==
    [k \in 0 .. Rk(s.op_) - 1 |->
        IF \E i \in 0 .. s.DIM - 1 : s.dims_[i][1] = k
        THEN LET i == CHOOSE i \in 0 .. s.DIM - 1 : s.dims_[i][1] = k
             IN  inds[i] * s.strides_[i][1]
        ELSE 0]

\* SliceOp::operator()(indices...): the index vector handed to op_
SliceIndex(s, inds) ==
    LET hits(k) == {i \in 0 .. s.DIM - 1 : s.dims_[i][1] = k}
        RECURSIVE Sum(_)
        Sum(I) == IF I = {} THEN 0
                  ELSE LET i == CHOOSE x \in I : TRUE
                       IN  inds[i] * s.strides_[i][1] + Sum(I \ {i})
    IN  [k \in 0 .. Rk(s.op_) - 1 |-> s.starts_[k][1] + Sum(hits(k))]

\* the index vectors of an operator with the given extents
Indices(sizes) ==
    {f \in [DOMAIN sizes -> 0 .. MaxStart + 1] : \A k \in DOMAIN sizes : f[k] < sizes[k]}

\* the descriptors a caller may pass for an operand with the given extents
Starts(sizes) ==
    {f \in [DOMAIN sizes -> 0 .. MaxStart] : \A k \in DOMAIN sizes : f[k] < sizes[k]}
Ends(sizes, starts) ==
    {f \in [DOMAIN sizes -> matxDropDim .. MaxStart + 2] :
        \A k \in DOMAIN sizes :
            f[k] \in {matxEnd, matxDropDim} \/ (starts[k] < f[k] /\ f[k] <= sizes[k])}
Strides(sizes) == [DOMAIN sizes -> 1 .. MaxStride]

\* what an element of the operand holds: its original value, or the value v
\* written through the slice
Values == {"orig", "v"}

\* the elements of an operand with the given extents, by index vector
OpElements(sizes) ==
    [c \in {f \in [DOMAIN sizes -> 0 .. MaxStart + 1] :
                \A k \in DOMAIN sizes : f[k] < sizes[k]} |-> "orig"]

\* op_(ind): any value when ind lies outside the operand
OpRead(data, ind) == IF ind \in DOMAIN data THEN {data[ind]} ELSE Values

\* a write that stays in storage of the slice's own
OpWrite_private(data, ind, v) == data

\* op_(ind) = v
OpWrite(data, ind, v) == IF ind \in DOMAIN data THEN [data EXCEPT ![ind] = v] ELSE data

\* the extents of the sliced operators (operators other than tensor views,
\* whose slices the factory hands to the tensor's own Slice): every extent
\* leaves two elements after any start
SliceOperands == {[k \in 0 .. n - 1 |-> MaxStart + 2] : n \in 1 .. MaxSliceRank}

\* slice<N>(op, starts, ends, strides) of an operator that is no tensor view
slice ==
    /\ sl.res = "none"
    /\ \E T \in SliceOperands :
       \E N \in 0 .. Rk(T), starts \in Starts(T) :
       \E ends \in Ends(T, starts), strides \in Strides(T) :
          /\ sl' \in Constructed(SliceOp(N, T, starts, ends, strides))
          /\ opdata' = OpElements(T)
    /\ sread' = <<>>
    /\ swrite' = <<>>
    /\ UNCHANGED sl2
    /\ UNCHANGED <<xvars, tvars>>

\* slice(op, starts, ends): strides.fill(1), then slice(op, starts, ends,
\* strides), which builds SliceOp<OpType::Rank(), OpType>
slice_default ==
    /\ sl.res = "none"
    /\ \E T \in SliceOperands :
       \E starts \in Starts(T) :
       \E ends \in Ends(T, starts) :
          /\ sl' \in Constructed(SliceOp(Rk(T), T, starts, ends, [k \in DOMAIN T |-> 1]))
          /\ opdata' = OpElements(T)
    /\ sread' = <<>>
    /\ swrite' = <<>>
    /\ UNCHANGED sl2
    /\ UNCHANGED <<xvars, tvars>>

\* slice<N>(op, starts, ends, strides) removing one dimension: N is one less
\* than the operand's rank and ends holds matxDropDim once
slice_drop ==
    /\ sl.res = "none"
    /\ \E T \in SliceOperands :
       \E starts \in Starts(T) :
       \E ends \in Ends(T, starts), strides \in Strides(T) :
          /\ Cardinality({k \in DOMAIN T : ends[k] = matxDropDim}) = 1
          /\ sl' \in Constructed(SliceOp(Rk(T) - 1, T, starts, ends, strides))
          /\ opdata' = OpElements(T)
    /\ sread' = <<>>
    /\ swrite' = <<>>
    /\ UNCHANGED sl2
    /\ UNCHANGED <<xvars, tvars>>

\* slice<N>(s, starts, ends, strides) of the slice s built before
slice_of_slice ==
    /\ sl.res = "ok" /\ sl.DIM > 0
    /\ sl2.res = "none"
    /\ LET T == SliceSizes(sl)
       IN  \E N \in 0 .. Rk(T), starts \in Starts(T) :
           \E ends \in Ends(T, starts), strides \in Strides(T) :
              sl2' \in Constructed(SliceOp(N, T, starts, ends, strides))
    /\ sread' = <<>>
    /\ swrite' = <<>>
    /\ UNCHANGED <<sl, opdata>>
    /\ UNCHANGED <<xvars, tvars>>

\* the slice the caller holds
Outermost == IF sl2.res = "ok" THEN sl2 ELSE sl

\* the operand index an access through the outermost slice arrives at
OperandIndex(inds) ==
    IF sl2.res = "ok" THEN SliceIndex(sl, SliceIndex(sl2, inds)) ELSE SliceIndex(sl, inds)

\* s(indices...) on the outermost slice: the element of the operand it reads
SliceRead ==
    /\ sl.res = "ok" /\ sl2.res \in {"none", "ok"}
    /\ \E inds \in Indices(SliceSizes(Outermost)) :
       \E v \in OpRead(opdata, OperandIndex(inds)) :
          sread' = <<inds, OperandIndex(inds), v>>
    /\ UNCHANGED <<sl, sl2, swrite, opdata>>
    /\ UNCHANGED <<xvars, tvars>>

\* s(indices...) = v on the outermost slice, once in a behaviour
SliceWrite ==
    /\ sl.res = "ok" /\ sl2.res \in {"none", "ok"}
    /\ swrite = <<>>
    /\ \E inds \in Indices(SliceSizes(Outermost)) :
          /\ swrite' = <<inds, OperandIndex(inds), "v">>
          /\ opdata' = OpWrite(opdata, OperandIndex(inds), "v")
    /\ sread' = <<>>
    /\ UNCHANGED <<sl, sl2>>
    /\ UNCHANGED <<xvars, tvars>>

\* s(indices...) at the output index that was written
SliceReadBack ==
    /\ sl.res = "ok" /\ sl2.res \in {"none", "ok"}
    /\ swrite # <<>>
    /\ \E v \in OpRead(opdata, OperandIndex(swrite[1])) :
          sread' = <<swrite[1], OperandIndex(swrite[1]), v>>
    /\ UNCHANGED <<sl, sl2, swrite, opdata>>
    /\ UNCHANGED <<xvars, tvars>>

\* ------------------------------------------------------ expression trees
MaxDepth == 2       \* transform nodes nest at most MaxDepth deep
MaxTreeExt == 2     \* the leaf tensors are e x e matrices, e in 1..MaxTreeExt

\* An expression: a tensor (no operands) or a transform node with its
\* operands a_ (and b_) in kids, its extents in ext and its tmp_out_ in tmp.
NoTree == [kind |-> "none", nd |-> NoNode, ext |-> <<>>, kids |-> <<>>, tmp |-> NoTensor]

Leaf(e) ==
    [kind |-> "tensor", nd |-> NoNode, ext |-> [d \in 0 .. 1 |-> e], kids |-> <<>>,
     tmp |-> NoTensor]

\* a node as its constructor leaves it; it reads its operands' Size(r)
MkNode(nd, kids) ==
    [kind |-> nd.kind, nd |-> nd, ext |-> CHOOSE f \in Sizes(nd) : TRUE,
     kids |-> kids, tmp |-> NoTensor]

\* the matrix-valued expressions nested at most k deep over e x e tensors
RECURSIVE Matrices(_, _)
Matrices(k, e) ==
    IF k = 0 THEN {Leaf(e)}
    ELSE LET S == Matrices(k - 1, e)
         IN  S \cup {MkNode(CumSumOp(x.ext), <<x>>) : x \in S}
               \cup {MkNode(CovOp(x.ext), <<x>>) : x \in S}
               \cup {MkNode(MatMulOp(x[1].ext, x[2].ext, no_permute_t, FALSE), x) :
                        x \in S \X S}

\* the expressions a caller may hold: a transform node at the root
Expressions(k, e) ==
    (Matrices(k, e) \ {Leaf(e)})
        \cup {MkNode(TraceOp(x.ext), <<x>>) : x \in Matrices(k - 1, e)}

NoTrail == [ex |-> "none", res |-> "none", events |-> <<>>]

\* what one node did, with the node's position in the tree
At(path, evs) == [i \in DOMAIN evs |-> [at |-> path, e |-> evs[i]]]

\* PreRun preparing the node itself before its operands
RECURSIVE PreRunTree_topdown(_, _, _)
PreRunTree_topdown(t, path, ex) ==
    IF t.kind = "tensor" THEN [res |-> "ok", events |-> <<>>, tree |-> t]
    ELSE LET own == PreRunOf(t.nd, ex, t.tmp, [b \in Bufs |-> <<>>], 0)
             ks == [i \in DOMAIN t.kids |-> PreRunTree_topdown(t.kids[i], Append(path, i), ex)]
             kevs == IF Len(ks) = 2 THEN ks[1].events \o ks[2].events ELSE ks[1].events
         IN  IF own.res # "ok" \/ \E i \in DOMAIN ks : ks[i].res # "ok"
             THEN [res |-> "static_assert", events |-> <<>>, tree |-> t]
             ELSE [res |-> "ok", events |-> At(path, own.events) \o kevs,
                   tree |-> [t EXCEPT !.kids = [i \in DOMAIN ks |-> ks[i].tree],
                                      !.tmp = own.tmp]]

\* PreRun of a node whose operands may be transform nodes: a_.PreRun (and
\* b_.PreRun) first, then the node's own make_tensor and Exec.  A tensor's
\* PreRun does nothing.  A static_assert anywhere in the tree rejects the
\* whole call when it is compiled.
RECURSIVE PreRunTree(_, _, _)
PreRunTree(t, path, ex) ==
    IF t.kind = "tensor" THEN [res |-> "ok", events |-> <<>>, tree |-> t]
    ELSE LET ks == [i \in DOMAIN t.kids |-> PreRunTree(t.kids[i], Append(path, i), ex)]
             kevs == IF Len(ks) = 2 THEN ks[1].events \o ks[2].events ELSE ks[1].events
             own == PreRunOf(t.nd, ex, t.tmp, [b \in Bufs |-> <<>>], 0)
         IN  IF own.res # "ok" \/ \E i \in DOMAIN ks : ks[i].res # "ok"
             THEN [res |-> "static_assert", events |-> <<>>, tree |-> t]
             ELSE [res |-> "ok", events |-> kevs \o At(path, own.events),
                   tree |-> [t EXCEPT !.kids = [i \in DOMAIN ks |-> ks[i].tree],
                                      !.tmp = own.tmp]]

\* cumsum(x), cov(x), trace(x), matmul(x, y) with operators as operands
expression ==
    /\ tree = NoTree
    /\ \E e \in 1 .. MaxTreeExt : \E t \in Expressions(MaxDepth, e) : tree' = t
    /\ trail' = NoTrail
    /\ UNCHANGED <<xvars, svars>>

\* root.PreRun(shape, ex)
PreRunRoot ==
    /\ tree # NoTree
    /\ \E ex \in Executors :
          LET r == PreRunTree(tree, <<>>, ex)
          IN  /\ tree' = r.tree
              /\ trail' = [ex |-> ex, res |-> r.res, events |-> r.events]
    /\ UNCHANGED <<xvars, svars>>

\* the tensors the shape rules are checked on, and those of the executed nodes
ShapeTensors == Tensors(1, MaxRank, MaxExt)
ExecTensors == {[d \in 0 .. n - 1 |-> (d % MaxExt) + 1] : n \in 1 .. MaxExecRank}

Init ==
    /\ node = NoNode
    /\ size0 = <<>>
    /\ obs = NoObs
    /\ tmp_out_ = NoTensor
    /\ bufs = [b \in Bufs |-> <<>>]
    /\ store = 0
    /\ events = <<>>
    /\ call = NoCall
    /\ sl = NoSlice
    /\ sl2 = NoSlice
    /\ sread = <<>>
    /\ swrite = <<>>
    /\ opdata = <<>>
    /\ tree = NoTree
    /\ trail = NoTrail

Constructors(TS) ==
    \/ matmul(TS)
    \/ matmul_axis(TS)
    \/ cov(TS)
    \/ cumsum(TS)
    \/ trace(TS)
    \/ qr(TS)
    \/ cusolver_qr(TS)

Next ==
    \/ Constructors(ExecTensors)
    \/ Exec
    \/ PreRun
    \/ Read
    \/ SizeRead
    \/ MutateSource

Spec == Init /\ [][Next]_vars

NextShape ==
    \/ Constructors(ShapeTensors)
    \/ SizeRead

SpecShape == Init /\ [][NextShape]_vars

NextSlice ==
    \/ slice
    \/ SliceRead

SpecSlice == Init /\ [][NextSlice]_vars

NextCompose ==
    \/ slice
    \/ slice_of_slice
    \/ SliceRead

SpecCompose == Init /\ [][NextCompose]_vars

NextUnit ==
    \/ slice_default
    \/ SliceRead

SpecUnit == Init /\ [][NextUnit]_vars

NextDrop ==
    \/ slice_drop
    \/ SliceRead

SpecDrop == Init /\ [][NextDrop]_vars

NextWrite ==
    \/ slice_default
    \/ slice_drop
    \/ SliceWrite
    \/ SliceReadBack

SpecWrite == Init /\ [][NextWrite]_vars

NextTree ==
    \/ expression
    \/ PreRunRoot

SpecTree == Init /\ [][NextTree]_vars


\* ------------------------------------------------------------- claims
\* the kernel of each operation
KernelOf(kind) ==
    CASE kind = "matmul" -> "matmul_impl"
      [] kind = "cov" -> "cov_impl"
      [] kind = "cumsum" -> "cumsum_impl"
      [] kind = "trace" -> "trace_impl"
      [] kind = "qr" -> "qr_impl"
      [] kind = "cusolver_qr" -> "cusolver_qr_impl"
      [] OTHER -> "none"

AllAssigned(nd) == \A r \in DOMAIN nd.out_dims_ : nd.out_dims_[r] # <<>>

\* the no-permutation rule on operands a (rank n) and b (rank m)
NoPermuteRule(a, b) ==
    [r \in 0 .. Rk(a) - 1 |-> IF r = Rk(a) - 1 THEN b[Rk(b) - 1] ELSE a[r]]

\* C1: a matmul node built without an axis pair reports A's batch extents,
\* A's second-to-last extent and B's last extent, for operands of any ranks
\* n, m >= 2, and every one of its n extents is assigned at construction.
C1_MatMulExtents ==
    (node.kind = "matmul" /\ ~node.permuted) =>
        /\ Rk(node.out_dims_) = Rk(node.a_)
        /\ AllAssigned(node)
        /\ node.oob = {}
        /\ size0 = NoPermuteRule(node.a_, node.b_)

\* C2: a matmul node built with an axis pair reports the no-permutation rule
\* of the permuted operands, permuted back: E[perm[k]] = P[k] for every k.
C2_AxisExtents ==
    (node.kind = "matmul" /\ node.permuted) =>
        LET P == NoPermuteRule(node.a_, node.b_)
        IN  \A k \in 0 .. node.rank - 1 : size0[node.perm_[k]] = P[k]

\* C9: a covariance or cumulative-sum node over a rank-n operand has an
\* extent vector of length n equal to the operand's extents, every entry
\* assigned and none written outside the vector; a trace node has rank 0.
C9_IdentityShape ==
    /\ node.kind \in {"cov", "cumsum"} =>
          /\ node.rank = Rk(node.a_)
          /\ Rk(node.out_dims_) = Rk(node.a_)
          /\ AllAssigned(node)
          /\ node.oob = {}
          /\ size0 = node.a_
    /\ node.kind = "trace" => node.rank = 0


KernelCalls(evs) == {i \in DOMAIN evs : evs[i].ev = "kernel"}

\* C5: every Exec(out, ex) that a single-output node accepts makes exactly one
\* kernel call, on the given destination and the captured operands, allocates
\* nothing, leaves the node and its temporary as they were, and writes the
\* given destination only, whatever was executed or prepared before.
C5_ExecFrame ==
    [][(~MultiOutput(node) /\ call'.op = "Exec" /\ call'.res = "ok") =>
          /\ events' = <<KernelCall(KernelOf(node.kind), <<call'.out[1]>>,
                                    node, call'.ex)>>
          /\ node' = node
          /\ size0' = size0
          /\ tmp_out_' = tmp_out_
          /\ \A b \in Bufs :
                bufs'[b] = IF b = call'.out[1]
                           THEN <<KernelOf(node.kind), store>> ELSE bufs[b]]_vars

\* both destinations hold the result of their own Exec, taken at different
\* operand values, on a node that was also prepared
C5_Witness ==
    /\ ~MultiOutput(node) /\ call.op = "Exec" /\ call.res = "ok"
    /\ tmp_out_.alloc
    /\ bufs[1] # <<>> /\ bufs[2] # <<>> /\ bufs[1] # bufs[2]

DeviceOnly == {"matmul", "cov", "qr", "cusolver_qr"}

\* C6: Exec or PreRun of a device-only transform with a host executor is
\* rejected and nothing runs: no kernel call, no allocation, no buffer or
\* temporary written.  Cumulative sum and trace call their kernel once, with
\* the executor they were given.
C6_DeviceOnly ==
    [][(Built /\ call'.op \in {"Exec", "PreRun"} /\ call'.ex = "host") =>
          IF node.kind \in DeviceOnly
          THEN /\ call'.res # "ok"
               /\ events' = <<>>
               /\ tmp_out_' = tmp_out_
               /\ bufs' = bufs
          ELSE /\ call'.res = "ok"
               /\ Cardinality(KernelCalls(events')) = 1
               /\ \A i \in KernelCalls(events') :
                     /\ events'[i].what = KernelOf(node.kind)
                     /\ events'[i].ctx = "host"]_vars

\* a prepared matmul node is then prepared with a host executor
C6_Witness ==
    /\ node.kind = "matmul" /\ tmp_out_.alloc
    /\ call.op = "PreRun" /\ call.ex = "host" /\ call.res = "static_assert"

\* C7: element access and PreRun of a multi-output node fail in every state
\* and for every executor, without allocating a temporary, calling a kernel
\* or returning a value.
C7_MultiOutputUnusable ==
    [][(MultiOutput(node) /\ call'.op \in {"operator()", "PreRun"}) =>
          /\ call'.res \in {"deleted", "matxNotSupported"}
          /\ events' = <<>>
          /\ tmp_out_' = tmp_out_ /\ ~tmp_out_'.alloc
          /\ bufs' = bufs
          /\ obs' = NoObs]_vars

\* PreRun fails on a QR node whose Exec had succeeded
C7_Witness ==
    /\ node.kind = "qr" /\ bufs[1] # <<>> /\ bufs[2] # <<>>
    /\ call.op = "PreRun" /\ call.res = "matxNotSupported"

\* the arity the claim fixes for each QR variant
ClaimedArity(kind) == IF kind = "qr" THEN 3 ELSE 2

\* C8: Exec of a QR node with a device executor succeeds exactly when the
\* destination tuple has the operation's arity (three for qr, two for the
\* simplified cusolver_qr); then the kernel is called once and both output
\* buffers are written; otherwise no kernel is called.
C8_QRArity ==
    (MultiOutput(node) /\ call.op = "Exec" /\ call.ex = "device") =>
        /\ (call.res = "ok") <=> (Len(call.out) = ClaimedArity(node.kind))
        /\ call.res = "ok" =>
              /\ Cardinality(KernelCalls(events)) = 1
              /\ \A i \in DOMAIN call.out :
                    call.out[i] \in Bufs =>
                        bufs[call.out[i]] = <<KernelOf(node.kind), store>>
        /\ call.res # "ok" => events = <<>>

\* C10: Size(d) returns what it returned immediately after construction,
\* after any sequence of PreRun, Exec, element reads and source mutations.
C10_ShapeFrozen ==
    obs.what = "Size" => obs.val = <<size0[obs.dim]>>

\* ------------------------------------------------------------ slice claims
\* the end of original dimension k once "to end of dimension" is resolved
ResolvedEnd(s, k) == IF s.ends[k] = matxEnd THEN s.op_[k] ELSE s.ends[k]

\* ceil((resolved_end_k - start_k) / stride_k) for original dimension k
ExtentRule(s, k) == Ceil(ResolvedEnd(s, k) - s.starts_[k][1], s.strides_[k][1])

\* C3: every retained original dimension k of a slice has the output extent
\* ceil((resolved_end_k - start_k) / stride_k), with the start and the stride
\* given for that same dimension k.
C3_SliceExtent ==
    (sl.res = "ok" /\ sl.oob = {}) =>
        \A j \in 0 .. sl.DIM - 1 : sl.sizes_[j][1] = ExtentRule(sl, sl.dims_[j][1])

\* the output position of original dimension k of a slice that retains it
PosOf(s, k) == CHOOSE j \in 0 .. s.DIM - 1 : s.dims_[j][1] = k

\* the single descriptor composed of the inner slice s1 and the outer slice
\* s2: start = s1 + s2*st1, stride = st1*st2, end = s1 + e2*st1
ComposedStarts(s1, s2) ==
    [k \in DOMAIN s1.op_ |->
        IF s1.ends[k] = matxDropDim THEN s1.starts_[k][1]
        ELSE s1.starts_[k][1] + s2.starts_[PosOf(s1, k)][1] * s1.strides_[k][1]]
ComposedStrides(s1, s2) ==
    [k \in DOMAIN s1.op_ |->
        IF s1.ends[k] = matxDropDim THEN s1.strides_[k][1]
        ELSE s1.strides_[k][1] * s2.strides_[PosOf(s1, k)][1]]
ComposedEnds(s1, s2) ==
    [k \in DOMAIN s1.op_ |->
        IF s1.ends[k] = matxDropDim THEN matxDropDim
        ELSE LET j == PosOf(s1, k)
                 e2 == IF s2.ends[j] = matxEnd THEN ExtentRule(s1, k) ELSE s2.ends[j]
             IN  IF s2.ends[j] = matxDropDim THEN matxDropDim
                 ELSE s1.starts_[k][1] + e2 * s1.strides_[k][1]]
Composed(s1, s2) ==
    SliceOp(s2.DIM, s1.op_, ComposedStarts(s1, s2), ComposedEnds(s1, s2),
            ComposedStrides(s1, s2))

\* C4: a slice of a slice reads, at every valid index, the same element of
\* the operand as the single slice with the composed descriptor, and both
\* report the same extents.
C4_Composition ==
    (sl.res = "ok" /\ sl.oob = {} /\ sl2.res = "ok" /\ sl2.oob = {}) =>
        LET sc == Composed(sl, sl2)
        IN  /\ sc.res = "ok"
            /\ SliceSizes(sc) = SliceSizes(sl2)
            /\ \A i \in Indices(SliceSizes(sl2)) :
                  SliceIndex(sl, SliceIndex(sl2, i)) = SliceIndex(sc, i)

\* the original dimensions a descriptor retains
Retained(s) == {k \in DOMAIN s.ends : s.ends[k] # matxDropDim}

Valid(s) == s.res = "ok" /\ s.oob = {}

UnitStride(s) == \A k \in DOMAIN s.strides_ : s.strides_[k] = <<1>>

\* C12: a slice with stride 1 in every dimension and no dropped dimension has
\* Size(d) = end_d - start_d for every d, and reading output index i reads
\* the operand at start + i.
C12_UnitStride ==
    (Valid(sl) /\ sl2.res = "none" /\ UnitStride(sl) /\ Retained(sl) = DOMAIN sl.op_) =>
        /\ sl.DIM = Rk(sl.op_)
        /\ \A d \in DOMAIN sl.op_ :
              SliceSizes(sl)[d] = ResolvedEnd(sl, d) - sl.starts_[d][1]
        /\ \A i \in Indices(SliceSizes(sl)) :
              SliceIndex(sl, i) = [d \in DOMAIN sl.op_ |-> sl.starts_[d][1] + i[d]]
        /\ sread # <<>> =>
              sread[2] = [d \in DOMAIN sl.op_ |-> sl.starts_[d][1] + sread[1][d]]

\* a rank-2 slice with unit strides, an explicit end and positive starts was
\* read at an index other than the origin
C12_Witness ==
    /\ Valid(sl) /\ UnitStride(sl) /\ Retained(sl) = DOMAIN sl.op_
    /\ sl.DIM = 2 /\ sl.starts_[0] = <<1>> /\ sl.starts_[1] = <<1>>
    /\ sl.ends[0] = 3 /\ sl.ends[1] = matxEnd
    /\ sread # <<>> /\ sread[1] = (0 :> 1 @@ 1 :> 1)

\* the original dimensions a descriptor drops
Dropped(s) == DOMAIN s.ends \ Retained(s)

\* C13: a slice that drops exactly one dimension d of a rank-n operand has
\* rank n-1, and every access hands the operand the start offset of d as
\* coordinate d, whatever the output index.
C13_DropDim ==
    (Valid(sl) /\ sl2.res = "none" /\ Cardinality(Dropped(sl)) = 1) =>
        LET d == CHOOSE k \in Dropped(sl) : TRUE
        IN  /\ sl.DIM = Rk(sl.op_) - 1
            /\ \A i \in Indices(SliceSizes(sl)) :
                  SliceIndex(sl, i)[d] = sl.starts_[d][1]
            /\ sread # <<>> => sread[2][d] = sl.starts_[d][1]

\* the first dimension of a rank-2 operand was dropped at start 1 and the
\* remaining dimension read at a positive index
C13_Witness ==
    /\ Valid(sl) /\ Dropped(sl) = {0} /\ Rk(sl.op_) = 2
    /\ sl.starts_[0] = <<1>>
    /\ sread # <<>> /\ sread[1][0] > 0

\* C14: a slice is an lvalue: a write of v at output index i lands on exactly
\* the operand element the read of i maps to and leaves every other element
\* and the slice itself unchanged; reading the slice at i then returns v.
C14_Lvalue ==
    /\ [][(swrite' # <<>> /\ (swrite' # swrite \/ opdata' # opdata)) =>
            LET i == swrite'[1]
                c == swrite'[2]
                v == swrite'[3]
            IN  /\ c = OperandIndex(i)
                /\ c \in DOMAIN opdata
                /\ opdata' = [opdata EXCEPT ![c] = v]
                /\ OpRead(opdata', OperandIndex(i)) = {v}
                /\ sl' = sl /\ sl2' = sl2]_vars
    /\ []((swrite # <<>> /\ sread # <<>> /\ sread[1] = swrite[1]) =>
            (sread[2] = swrite[2] /\ sread[3] = swrite[3]))

\* a slice that drops the first dimension was written at a positive index
\* and read back there
C14_Witness ==
    /\ Valid(sl) /\ Dropped(sl) = {0} /\ Rk(sl.op_) = 2
    /\ swrite # <<>> /\ swrite[1][0] > 0
    /\ sread # <<>> /\ sread[1] = swrite[1] /\ sread[3] = swrite[3]

\* C15: an access hands the operand start_k for every dropped dimension k
\* and start_k + i * stride_k for every retained dimension k, i being the
\* output index of the output dimension recorded for k and stride_k the
\* stride given for k itself.
C15_ElementAccess ==
    (Valid(sl) /\ sl2.res = "none") =>
        \A inds \in Indices(SliceSizes(sl)) :
            SliceIndex(sl, inds) =
                [k \in DOMAIN sl.op_ |->
                    IF k \in Dropped(sl) THEN sl.starts_[k][1]
                    ELSE sl.starts_[k][1] + inds[PosOf(sl, k)] * sl.strides_[k][1]]

\* C20: whatever the descriptor, the constructor writes sizes_ and dims_ only
\* at indices d < DIM: a descriptor retaining more than DIM dimensions is
\* rejected before any write at an index >= DIM.
C20_WritesInRange ==
    /\ sl.oob = {}
    /\ sl2.oob = {}

\* ------------------------------------------------------------ PreRun claims
\* the positions of the transform nodes of an expression
RECURSIVE Paths(_)
Paths(t) ==
    IF t.kind = "tensor" THEN {}
    ELSE {<<>>} \cup UNION {{<<i>> \o p : p \in Paths(t.kids[i])} : i \in DOMAIN t.kids}

\* q lies strictly below p
Below(p, q) == Len(p) < Len(q) /\ SubSeq(q, 1, Len(p)) = p

\* when the node at p did ev during the last PreRun on the root
When(p, ev) ==
    {i \in DOMAIN trail.events : trail.events[i].at = p /\ trail.events[i].e.ev = ev}

\* C16: PreRun on the root with a device context walks the tree bottom-up:
\* every transform operand of a node N has completed its PreRun, kernel call
\* included, before N's temporary is allocated, N's temporary is allocated
\* before N's kernel is called, every node's kernel is called exactly once,
\* and all of it with the context given to the root.
C16_BottomUp ==
    trail.ex = "device" =>
        /\ trail.res = "ok"
        /\ \A i \in DOMAIN trail.events :
              /\ trail.events[i].at \in Paths(tree)
              /\ trail.events[i].e.ctx = trail.ex
        /\ \A p \in Paths(tree) :
              /\ Cardinality(When(p, "kernel")) = 1
              /\ Cardinality(When(p, "alloc")) = 1
              /\ \A a \in When(p, "alloc"), k \in When(p, "kernel") :
                    /\ a < k
                    /\ trail.events[k].e.dst = <<Tmp>>
              /\ \A q \in Paths(tree) :
                    Below(p, q) =>
                        \A a \in When(p, "alloc"), i \in When(q, "alloc") \cup When(q, "kernel") :
                            i < a

\* a matmul of a cumsum and a cov was prepared with a device context
C16_Witness ==
    /\ tree.kind = "matmul"
    /\ tree.kids[1].kind = "cumsum" /\ tree.kids[2].kind = "cov"
    /\ trail.ex = "device" /\ trail.res = "ok"
    /\ Len(trail.events) = 6
    /\ tree.tmp.alloc /\ tree.kids[1].tmp.alloc /\ tree.kids[2].tmp.alloc

Allocations(evs) == {i \in DOMAIN evs : evs[i].ev = "alloc"}

\* C17: PreRun of a single-output transform with a host context allocates no
\* owned temporary.
C17_HostNoAlloc ==
    [][(~MultiOutput(node) /\ call'.op = "PreRun" /\ call'.ex = "host") =>
          /\ Allocations(events') = {}
          /\ tmp_out_'.alloc = tmp_out_.alloc
          /\ tmp_out_'.mem = tmp_out_.mem]_vars

\* C18: PreRun on a node that an earlier PreRun has prepared allocates no
\* second temporary and keeps the buffer of the first.
C18_PreparedOnce ==
    [][(~MultiOutput(node) /\ tmp_out_.alloc /\ call'.op = "PreRun") =>
          /\ Allocations(events') = {}
          /\ tmp_out_'.alloc
          /\ tmp_out_'.mem = tmp_out_.mem
          /\ tmp_out_'.dims = tmp_out_.dims]_vars

\* C19: whenever PreRun of a single-output transform calls its kernel, the
\* temporary it passes has been allocated with the node's extents, and an
\* element access that follows a PreRun reads an allocated temporary.
C19_KernelOnAllocated ==
    /\ [][(~MultiOutput(node) /\ call'.op = "PreRun" /\ KernelCalls(events') # {}) =>
            /\ tmp_out_'.alloc
            /\ tmp_out_'.dims = node.out_dims_]_vars
    /\ [][(call.op = "PreRun" /\ call.res = "ok" /\ call'.op = "operator()") =>
            tmp_out_.alloc]_vars
====
